---- MODULE Spec2Model ----
(***************************************************************************)
(* The ClawHouse delivery gateway of one account: the supervisor loop      *)
(* (startClawHouseConnection), one WebSocket session at a time             *)
(* (runWebSocketConnection), the promise-chain poll mutex (enqueuePoll),   *)
(* the polling fallback (runPollingFallback) and the poll itself           *)
(* (pollAndDeliver), against a remote message stream that only grows.      *)
(*                                                                         *)
(* An event is its position in the stream (1, 2, ...); the cursor token    *)
(* the source returns for a page is the position of the page's last        *)
(* event.  Every await of the code is a separate step of the model; the    *)
(* synchronous code between two awaits is one step.                        *)
(***************************************************************************)
EXTENDS Integers, Sequences, FiniteSets, TLC

\* ---- bounds of the model ------------------------------------------------
MaxEvents == 2      \* events the remote stream ever holds
MaxQueue == 2       \* polls of the promise chain that have not settled
MaxSessions == 1    \* WebSocket session closures alive at the same time
MaxAttempt == 5     \* highest attempt nextBackoff is called with
RandSteps == 10     \* Math.random() returns j / RandSteps with j < RandSteps

\* ---- program constants --------------------------------------------------
maxIterations == 10
BACKOFF_INITIAL_MS == 2000
BACKOFF_MAX_MS == 30000
\* BACKOFF_FACTOR = 1.8 = FactorNum / FactorDen
FactorNum == 9
FactorDen == 5

\* ---- cursor values ------------------------------------------------------
\* string | null in the code: null, the empty string, the text 'SEED', or a
\* token of the source.  Token k > 0 is the cursor of a page that ends with
\* event k; token 0 is a cursor an earlier run of the process stored, when
\* the stream ended before event 1.
NULL == 0 - 1
EMPTY == 0 - 2
SEED == 0 - 3

\* A state of the cursor file, not a cursor: the file exists and
\* readFileSync throws on it (no permission, a directory in its place).
UNREADABLE == 0 - 4

Tokens == 0..MaxEvents
Cursors == {NULL, EMPTY, SEED} \cup Tokens

\* JavaScript truthiness of a string | null value: `if (newCursor)`,
\* `!cursor`.
Truthy(c) == c # NULL /\ c # EMPTY

Builds == {"gateway.ts", "part_005"}
Authors == {"user", "bot"}
Sessions == 1..MaxSessions
Events == 1..MaxEvents

VARIABLES
    build,        \* which of the two gateway sources runs
    stream,       \* remote stream: sequence of authorType values
    fileCursor,   \* content of cursors/<accountId>/cursor (NULL: no file)
    aborted,      \* ctx.abortSignal.aborted
    supPc,        \* where startClawHouseConnection is suspended
    supCursor,    \* `cursor` of startClawHouseConnection / runPollingFallback
    iterations,   \* `iterations` of runPollingFallback while its loop reads it
    ws,           \* the socket of the current session
    curSess,      \* closure of the current session (0: none)
    sessCursor,   \* `cursor` of each runWebSocketConnection closure
    chain,        \* pollChain: the enqueued polls not yet settled, oldest first
    fb,           \* the pollAndDeliver call of runPollingFallback
    delivered,    \* the events deliverMessageToAgent was called with
    syncHi,       \* highest position a synchronization covered (-1: none yet)
    backoff,      \* the BackoffState that nextBackoff and resetBackoff work on
    delay,        \* what the last call of nextBackoff returned, in ticks
    timers,       \* which of the timers of the current session are armed
    tracked,      \* the part of the bookkeeping that the behaviour follows
    status,       \* what ctx.setStatus has been given: running, lastError
    health,       \* reconnect counts of the health tracker and the supervisor
    listeners,    \* 'abort' listeners of the gateway on ctx.abortSignal
    tickets       \* for each ticket issued, the sockets created with it

vars == <<build, stream, fileCursor, aborted, supPc, supCursor, iterations,
          ws, curSess, sessCursor, chain, fb, delivered, syncHi, backoff,
          delay, timers, tracked, status, health, listeners, tickets>>

\* The state of the gateway proper.
gatewayVars == <<build, stream, fileCursor, aborted, supPc, supCursor,
                 iterations, ws, curSess, sessCursor, chain, fb, delivered,
                 syncHi, timers, tracked, status, health, listeners,
                 tickets>>

\* ---- the remote source --------------------------------------------------
\* messages.list: the events after the cursor (all of them without one) and
\* the cursor of the last one, null when there is none.
ListMessages(apiCursor) ==
    LET lo == IF apiCursor = NULL THEN 1 ELSE apiCursor + 1
        hi == Len(stream)
    IN  [lo |-> lo, hi |-> hi, cursor |-> IF hi >= lo THEN hi ELSE NULL]

\* ---- pollAndDeliver: pure parts -----------------------------------------
\* Fault variant: no poll is a first run.
isFirstRunNever(cursor) == FALSE

isFirstRun(cursor) == ~Truthy(cursor) \/ cursor = SEED

apiCursorOf(cursor) == IF Truthy(cursor) /\ cursor # SEED THEN cursor ELSE NULL

\* `return response.cursor ?? ''` (gateway.ts) / `?? SEED` (part_005)
Sentinel == IF build = "gateway.ts" THEN EMPTY ELSE SEED

\* Fault variant: a first run over an empty inbox returns the cursor of the
\* start of the stream.
firstRunResultFromStart(respCursor) ==
    IF respCursor # NULL THEN respCursor ELSE 0

firstRunResult(respCursor) == IF respCursor # NULL THEN respCursor ELSE Sentinel

\* saveCursor is called only under `if (response.cursor)`.
saveCursor(file, respCursor) == IF Truthy(respCursor) THEN respCursor ELSE file

\* Fault variant: the loop passes over the first event of its range.
NextDeliverableSkipFirst(from, hi) ==
    LET c == {k \in (from + 1)..hi : stream[k] # "bot"}
    IN  IF c = {} THEN 0 ELSE CHOOSE k \in c : \A j \in c : k <= j

\* Fault variant: the loop without the authorType test.
NextDeliverableNoSkip(from, hi) == IF from <= hi THEN from ELSE 0

\* The delivery loop: the next event from position `from` on that is not
\* authored by the bot (0: the loop ends).
NextDeliverable(from, hi) ==
    LET c == {k \in from..hi : stream[k] # "bot"}
    IN  IF c = {} THEN 0 ELSE CHOOSE k \in c : \A j \in c : k <= j

\* ---- poll activations ---------------------------------------------------
\* st: queued (link of the chain not yet run), fetch (awaiting listMessages),
\* deliver (awaiting deliverMessageToAgent for event idx of page ..hi).
FreePoll == [st |-> "free", via |-> "none", sess |-> 0, cur |-> NULL,
             hi |-> 0, idx |-> 0]

StartedPoll(via, sess, cur) ==
    [st |-> "fetch", via |-> via, sess |-> sess, cur |-> cur,
     hi |-> 0, idx |-> 0]

QueuedPoll(via, sess) ==
    [st |-> "queued", via |-> via, sess |-> sess, cur |-> NULL,
     hi |-> 0, idx |-> 0]

\* Slot 0 is the fallback's call, slot i >= 1 the i-th link of the chain.
Slots == 0..Len(chain)

PollAt(i) == IF i = 0 THEN fb ELSE chain[i]

Running(r) == r.st \in {"fetch", "deliver"}

InFlight == {i \in Slots : Running(PollAt(i))}

MinOf(S) == CHOOSE x \in S : \A y \in S : x <= y

RemoveAt(s, i) == [j \in 1..(Len(s) - 1) |-> IF j < i THEN s[j] ELSE s[j + 1]]

\* A closure is reachable while its session runs or a link of the chain
\* holds its getCursor/setCursor.
LiveSessions(cs, ch) == {cs} \cup {ch[j].sess : j \in 1..Len(ch)}

Normalized(sc, cs, ch) ==
    [s \in Sessions |-> IF s \in LiveSessions(cs, ch) THEN sc[s] ELSE NULL]

SetPoll(i, r) ==
    IF i = 0 THEN fb' = r /\ UNCHANGED chain
    ELSE chain' = [chain EXCEPT ![i] = r] /\ UNCHANGED fb

\* A link of the chain whose turn has come runs its callback: the poll of
\* this account calls pollAndDeliver with getCursor(), the link of another
\* account (gateway.ts has one chain for all accounts) runs that account's
\* poll.
StartLink(q, sc) ==
    IF q.via = "other" THEN [q EXCEPT !.st = "other"]
    ELSE [q EXCEPT !.st = "fetch", !.cur = sc[q.sess]]

\* Fault variant: a poll of the chain that produced no cursor leaves the
\* links behind it waiting for ever.
SettleBreaksChain(i, res) ==
    IF i = 0
    THEN /\ fb' = FreePoll
         /\ supCursor' = IF Truthy(res) THEN res ELSE supCursor
         /\ iterations' = IF aborted THEN 0 ELSE iterations + 1
         /\ supPc' = "pollSleep"
         /\ UNCHANGED <<chain, sessCursor>>
    ELSE LET q == chain[i]
             rest == RemoveAt(chain, i)
             sc == IF Truthy(res) THEN [sessCursor EXCEPT ![q.sess] = res]
                   ELSE sessCursor
             newChain ==
                 IF rest # <<>> /\ rest[1].st = "queued" /\ Truthy(res)
                 THEN [rest EXCEPT ![1] = StartLink(rest[1], sc)]
                 ELSE rest
         IN  /\ chain' = newChain
             /\ sessCursor' = Normalized(sc, curSess, newChain)
             /\ UNCHANGED <<fb, supCursor, iterations, supPc>>

\* Fault variant: the callers assign whatever pollAndDeliver returns.
SettleAssignsAlways(i, res) ==
    IF i = 0
    THEN /\ fb' = FreePoll
         /\ supCursor' = res
         /\ iterations' = IF aborted THEN 0 ELSE iterations + 1
         /\ supPc' = "pollSleep"
         /\ UNCHANGED <<chain, sessCursor>>
    ELSE LET q == chain[i]
             rest == RemoveAt(chain, i)
             sc == [sessCursor EXCEPT ![q.sess] = res]
             newChain ==
                 IF rest # <<>> /\ rest[1].st = "queued"
                 THEN [rest EXCEPT ![1] = StartLink(rest[1], sc)]
                 ELSE rest
         IN  /\ chain' = newChain
             /\ sessCursor' = Normalized(sc, curSess, newChain)
             /\ UNCHANGED <<fb, supCursor, iterations, supPc>>

\* pollAndDeliver returns `res`; the continuation of its caller runs:
\* enqueuePoll's `if (newCursor) setCursor(newCursor)` and then the next
\* link of the chain, or runPollingFallback's `if (newCursor) cursor =
\* newCursor; iterations++` up to the sleep.  Once the abort signal has
\* fired the loop condition fails whatever `iterations` holds: the count is
\* no longer kept.
Settle(i, res) ==
    IF i = 0
    THEN /\ fb' = FreePoll
         /\ supCursor' = IF Truthy(res) THEN res ELSE supCursor
         /\ iterations' = IF aborted THEN 0 ELSE iterations + 1
         /\ supPc' = "pollSleep"
         /\ UNCHANGED <<chain, sessCursor>>
    ELSE LET q == chain[i]
             rest == RemoveAt(chain, i)
             sc == IF Truthy(res) THEN [sessCursor EXCEPT ![q.sess] = res]
                   ELSE sessCursor
             newChain ==
                 IF rest # <<>> /\ rest[1].st = "queued"
                 THEN [rest EXCEPT ![1] = StartLink(rest[1], sc)]
                 ELSE rest
         IN  /\ chain' = newChain
             /\ sessCursor' = Normalized(sc, curSess, newChain)
             /\ UNCHANGED <<fb, supCursor, iterations, supPc>>

\* The for-loop of pollAndDeliver from position `from`: skip bot events,
\* call deliverMessageToAgent on the next other event and await it, or, at
\* the end of the page, persist the cursor and return it.
DeliverLoop(i, from, hi) ==
    LET k == NextDeliverable(from, hi)
    IN  IF k # 0
        THEN /\ delivered' = delivered \cup {k}
             /\ SetPoll(i, [PollAt(i) EXCEPT !.st = "deliver", !.hi = hi,
                                             !.idx = k])
             /\ UNCHANGED <<fileCursor, sessCursor, supCursor, iterations,
                            supPc>>
        ELSE /\ fileCursor' = saveCursor(fileCursor, hi)
             /\ Settle(i, hi)
             /\ UNCHANGED delivered

\* listMessages answers.
FetchReturn(i) ==
    /\ i \in Slots
    /\ PollAt(i).st = "fetch"
    /\ LET cursor == PollAt(i).cur
           response == ListMessages(apiCursorOf(cursor))
       IN  IF isFirstRun(cursor)
           THEN /\ fileCursor' = saveCursor(fileCursor, response.cursor)
                /\ Settle(i, firstRunResult(response.cursor))
                /\ syncHi' = IF response.hi > syncHi THEN response.hi
                             ELSE syncHi
                /\ UNCHANGED delivered
           ELSE IF response.hi < response.lo
           THEN /\ Settle(i, NULL)
                /\ UNCHANGED <<fileCursor, delivered, syncHi>>
           ELSE /\ DeliverLoop(i, response.lo, response.hi)
                /\ UNCHANGED syncHi
    /\ UNCHANGED <<backoff, delay, timers, tracked>>
    /\ UNCHANGED <<status, health, listeners, tickets>>
    /\ UNCHANGED <<build, stream, aborted, ws, curSess>>

\* Fault variant: a failed fetch returns the cursor of the end of the stream.
FetchFailAdvances(i) ==
    /\ i \in Slots
    /\ PollAt(i).st = "fetch"
    /\ Settle(i, Len(stream))
    /\ UNCHANGED <<backoff, delay, timers, tracked>>
    /\ UNCHANGED <<status, health, listeners, tickets>>
    /\ UNCHANGED <<build, stream, fileCursor, aborted, ws, curSess,
                   delivered, syncHi>>

\* listMessages throws (HTTP error, network error, timeout): the catch of
\* pollAndDeliver returns null.
FetchFail(i) ==
    /\ i \in Slots
    /\ PollAt(i).st = "fetch"
    /\ Settle(i, NULL)
    /\ UNCHANGED <<backoff, delay, timers, tracked>>
    /\ UNCHANGED <<status, health, listeners, tickets>>
    /\ UNCHANGED <<build, stream, fileCursor, aborted, ws, curSess,
                   delivered, syncHi>>

\* deliverMessageToAgent resolves: the loop goes on.
DeliverReturn(i) ==
    /\ i \in Slots
    /\ PollAt(i).st = "deliver"
    /\ DeliverLoop(i, PollAt(i).idx + 1, PollAt(i).hi)
    /\ UNCHANGED <<backoff, delay, timers, tracked>>
    /\ UNCHANGED <<status, health, listeners, tickets>>
    /\ UNCHANGED <<build, stream, aborted, ws, curSess, syncHi>>

\* deliverMessageToAgent rejects (an exception escapes it before its own
\* try block): the catch of pollAndDeliver returns null.
DeliverThrow(i) ==
    /\ i \in Slots
    /\ PollAt(i).st = "deliver"
    /\ Settle(i, NULL)
    /\ UNCHANGED <<backoff, delay, timers, tracked>>
    /\ UNCHANGED <<status, health, listeners, tickets>>
    /\ UNCHANGED <<build, stream, fileCursor, aborted, ws, curSess,
                   delivered, syncHi>>

\* ---- pollAndDeliver on a disk that refuses writes ---------------------------
\* The answer of listMessages takes poll i to a call of saveCursor: in the
\* first-run branch under `if (response.cursor)`, otherwise at the end of a
\* page that holds nothing to deliver.
SavesAtFetch(i) ==
    LET cursor == PollAt(i).cur
        response == ListMessages(apiCursorOf(cursor))
    IN  IF isFirstRun(cursor) THEN Truthy(response.cursor)
        ELSE /\ response.hi >= response.lo
             /\ NextDeliverable(response.lo, response.hi) = 0

\* The delivery poll i awaits is the last of its page.
SavesAtDeliver(i) == NextDeliverable(PollAt(i).idx + 1, PollAt(i).hi) = 0

\* saveCursor fails (mkdirSync or writeFileSync throws): its catch logs a
\* warning, the file keeps its content and the poll goes on as after a
\* write.
FetchReturnSaveFails(i) ==
    /\ i \in Slots
    /\ PollAt(i).st = "fetch"
    /\ SavesAtFetch(i)
    /\ LET cursor == PollAt(i).cur
           response == ListMessages(apiCursorOf(cursor))
       IN  IF isFirstRun(cursor)
           THEN /\ Settle(i, firstRunResult(response.cursor))
                /\ syncHi' = IF response.hi > syncHi THEN response.hi
                             ELSE syncHi
           ELSE /\ Settle(i, response.hi)
                /\ UNCHANGED syncHi
    /\ UNCHANGED <<backoff, delay, timers, tracked>>
    /\ UNCHANGED <<status, health, listeners, tickets>>
    /\ UNCHANGED <<build, stream, fileCursor, aborted, ws, curSess, delivered>>

\* Fault variant: the exception of the write escapes saveCursor, and the
\* catch of pollAndDeliver returns null.
DeliverReturnSaveThrows(i) ==
    /\ i \in Slots
    /\ PollAt(i).st = "deliver"
    /\ SavesAtDeliver(i)
    /\ Settle(i, NULL)
    /\ UNCHANGED <<backoff, delay, timers, tracked>>
    /\ UNCHANGED <<status, health, listeners, tickets>>
    /\ UNCHANGED <<build, stream, fileCursor, aborted, ws, curSess, delivered,
                   syncHi>>

DeliverReturnSaveFails(i) ==
    /\ i \in Slots
    /\ PollAt(i).st = "deliver"
    /\ SavesAtDeliver(i)
    /\ Settle(i, PollAt(i).hi)
    /\ UNCHANGED <<backoff, delay, timers, tracked>>
    /\ UNCHANGED <<status, health, listeners, tickets>>
    /\ UNCHANGED <<build, stream, fileCursor, aborted, ws, curSess, delivered,
                   syncHi>>

\* The steps of a poll that do not get to saveCursor.
FetchReturnNoSave(i) ==
    /\ i \in Slots
    /\ PollAt(i).st = "fetch"
    /\ ~SavesAtFetch(i)
    /\ FetchReturn(i)

DeliverReturnNoSave(i) ==
    /\ i \in Slots
    /\ PollAt(i).st = "deliver"
    /\ ~SavesAtDeliver(i)
    /\ DeliverReturn(i)

\* ---- enqueuePoll ---------------------------------------------------------
\* Fault variant: the poll starts at once, without waiting for the chain.
enqueuePollUnserialized(via, sess) ==
    chain' = Append(chain, StartedPoll(via, sess, sessCursor[sess]))

\* pollChain = pollChain.then(poll).catch(log): the poll starts (reading
\* getCursor() at that moment) once every earlier link has settled; with an
\* idle chain that is the next microtask.
enqueuePoll(via, sess) ==
    chain' = Append(chain, IF chain = <<>>
                           THEN StartedPoll(via, sess, sessCursor[sess])
                           ELSE QueuedPoll(via, sess))

\* ---- a second account in the same process ------------------------------------
\* gateway.ts keeps one module-level pollChain: the polls of every account
\* that startClawHouseConnection runs for are links of the same chain.  The
\* poll of the other account works on that account's cursor, file and
\* stream: here it only occupies its link until it settles.
OtherPoll(st) ==
    [st |-> st, via |-> "other", sess |-> 0, cur |-> NULL, hi |-> 0, idx |-> 0]

\* enqueuePoll called by the session of the other account.
enqueuePollOther ==
    /\ Len(chain) < MaxQueue
    /\ chain' = Append(chain, IF chain = <<>> THEN OtherPoll("other")
                              ELSE OtherPoll("queued"))
    /\ UNCHANGED <<backoff, delay, timers, tracked>>
    /\ UNCHANGED <<status, health, listeners, tickets>>
    /\ UNCHANGED <<build, stream, fileCursor, aborted, supPc, supCursor,
                   iterations, ws, curSess, sessCursor, fb, delivered, syncHi>>

\* The poll of the other account settles.
otherPollSettles(i) ==
    /\ i \in 1..Len(chain)
    /\ chain[i].st = "other"
    /\ Settle(i, NULL)
    /\ UNCHANGED <<backoff, delay, timers, tracked>>
    /\ UNCHANGED <<status, health, listeners, tickets>>
    /\ UNCHANGED <<build, stream, fileCursor, aborted, ws, curSess,
                   delivered, syncHi>>

\* ---- nextBackoff / resetBackoff ---------------------------------------------
\* BACKOFF_FACTOR = 1.8 is the fraction FactorNum / FactorDen, and the model
\* computes with exact fractions where the code computes with doubles.  A
\* duration is counted in ticks of 1 / (FactorDen * 4 * RandSteps) ms, which
\* makes every delay below the cap and every jitter a whole number.
RECURSIVE Pow(_, _)
Pow(b, n) == IF n = 0 THEN 1 ELSE b * Pow(b, n - 1)

TicksPerMs == FactorDen * 4 * RandSteps

\* Fault variant: the delay without Math.min.
BackoffDelayUncapped(attempt) ==
    ((BACKOFF_INITIAL_MS * FactorDen * Pow(FactorNum, attempt))
        \div Pow(FactorDen, attempt)) * 4 * RandSteps

\* delay = Math.min(BACKOFF_INITIAL_MS * Math.pow(BACKOFF_FACTOR, attempt),
\*                  BACKOFF_MAX_MS)
BackoffDelay(attempt) ==
    IF BACKOFF_INITIAL_MS * Pow(FactorNum, attempt)
           > BACKOFF_MAX_MS * Pow(FactorDen, attempt)
    THEN BACKOFF_MAX_MS * TicksPerMs
    ELSE ((BACKOFF_INITIAL_MS * FactorDen * Pow(FactorNum, attempt))
             \div Pow(FactorDen, attempt)) * 4 * RandSteps

\* jitter = delay * 0.25 * Math.random(), Math.random() being j / RandSteps
Jitter(d, j) == (d * j) \div (4 * RandSteps)

\* The body of nextBackoff(state) with Math.random() = j / RandSteps: the
\* delay it returns and `state.attempt++`.
nextBackoffCall(j) ==
    /\ backoff.attempt <= MaxAttempt
    /\ delay' = BackoffDelay(backoff.attempt)
                   + Jitter(BackoffDelay(backoff.attempt), j)
    /\ backoff' = [backoff EXCEPT !.attempt = @ + 1]

\* The body of resetBackoff(state): `state.attempt = 0`.
resetBackoffCall == backoff' = [backoff EXCEPT !.attempt = 0]

\* nextBackoff(state) called on its own
nextBackoff(j) ==
    /\ nextBackoffCall(j)
    /\ UNCHANGED gatewayVars

\* resetBackoff(state) called on its own
resetBackoff ==
    /\ resetBackoffCall
    /\ UNCHANGED delay
    /\ UNCHANGED gatewayVars

\* What a step of the supervisor that goes on to `pc` does to the backoff:
\* `const delay = nextBackoff(backoff)` when it goes on to the backoff
\* sleep.  The BackoffState is written by the supervisor and read by
\* nextBackoff only, so which steps the gateway takes does not depend on
\* it: a behaviour that is not `tracked` leaves it at its first value.
SupervisorBackoff(pc) ==
    IF tracked = "backoff" /\ pc = "backoff"
    THEN \E j \in 0..(RandSteps - 1) : nextBackoffCall(j)
    ELSE UNCHANGED <<backoff, delay>>

\* ---- bookkeeping ---------------------------------------------------------------
\* The account status, the health tracker, the listeners on the abort signal
\* and the tickets are written by the gateway and never read by it: which
\* steps it takes does not depend on them.  A behaviour follows the part
\* that `tracked` names and leaves the others at their first value.
NoStatus == [running |-> FALSE, lastError |-> "absent"]

\* ctx.setStatus(patch): `status` is the patch of the latest call.  Every
\* call in the gateway gives `running`; `lastError` is "absent" in a patch
\* without that key.
setStatus(patch) == IF tracked = "status" THEN patch ELSE status

\* { running: true, lastStartAt }
StatusUp == [running |-> TRUE, lastError |-> "absent"]

\* { running: false, lastStopAt }
StatusDown == [running |-> FALSE, lastError |-> "absent"]

\* Close codes a 'close' event can carry: normal, going away, protocol
\* error, abnormal closure, internal error, service restart, a registered
\* code and an application code.
CloseCodes == {1000, 1001, 1002, 1006, 1011, 1012, 3000, 4000}

\* The status a 'close' event with `code` leaves: running: false first, and
\* a second patch with lastError for the codes 1002..1011 and 4000 and up.
closeStatus(code) ==
    IF code = 1000 THEN StatusDown
    ELSE IF code = 1001 THEN StatusDown
    ELSE IF code >= 1002 /\ code <= 1011
         THEN [running |-> FALSE, lastError |-> "WebSocket closed with code"]
    ELSE IF code >= 4000
         THEN [running |-> FALSE, lastError |-> "Application error"]
    ELSE StatusDown

\* `health.totalReconnects` is the local counter of the supervisor,
\* `health.reconnects` the field totalReconnects of the account's entry in
\* healthState, `health.interval` says that healthInterval is armed.
NoHealth == [totalReconnects |-> 0, reconnects |-> 0, interval |-> FALSE]

\* A behaviour that follows the health tracking ends its count here.
MaxReconnects == 3

CanCount ==
    tracked = "health" =>
        health.totalReconnects < MaxReconnects
        /\ health.reconnects < MaxReconnects

\* `totalReconnects++`
Counted(h) ==
    IF tracked = "health" THEN [h EXCEPT !.totalReconnects = @ + 1] ELSE h

\* recordReconnect(accountId): health.totalReconnects++
recordReconnect(h) ==
    IF tracked = "health" THEN [h EXCEPT !.reconnects = @ + 1] ELSE h

\* The abort listener of the supervisor: clearInterval(healthInterval).
clearHealthInterval(h) ==
    IF tracked = "health" THEN [h EXCEPT !.interval = FALSE] ELSE h

\* `listeners` counts the 'abort' listeners that calls of
\* runWebSocketConnection have added to ctx.abortSignal and that are still
\* on it.  A behaviour that follows them ends its count here.
MaxListeners == 3

CanListen == tracked = "listeners" => listeners < MaxListeners

\* ctx.abortSignal.addEventListener('abort', ..., { once: true }) in
\* runWebSocketConnection.
addEventListener(n) == IF tracked = "listeners" THEN n + 1 ELSE n

\* The signal fires: every listener on it is called, and one added with
\* `once` is removed by the call.
dispatchAbort(n) == IF tracked = "listeners" THEN 0 ELSE n

\* `tickets[i]` is the number of WebSockets created with the i-th ticket
\* that getWsTicket has returned.  A behaviour that follows the tickets
\* ends after this many.
MaxTickets == 3

CanTicket == tracked = "tickets" => Len(tickets) < MaxTickets

\* Fault variant: the ticket of the first call is kept and used again.
TicketCached(ts) == 1

\* The ticket given to runWebSocketConnection in an iteration of the loop,
\* `ts` holding the tickets returned so far: the `ticket` of the
\* destructuring `const { ticket, wsUrl } = await client.getWsTicket()` of
\* that iteration, the latest.
TicketPassed(ts) == Len(ts)

\* getWsTicket resolves with a ticket the server has just issued, and
\* `new WebSocket(`${wsUrl}?ticket=${ticket}`)` is created with the ticket
\* passed.
ConnectWithTicket(ts) ==
    IF tracked = "tickets"
    THEN LET issued == Append(ts, 0)
         IN  [issued EXCEPT ![TicketPassed(issued)] = @ + 1]
    ELSE ts

\* ---- the timers of a session -------------------------------------------------
\* The handles pingInterval, connectionTimer and pongTimer of the closure
\* of runWebSocketConnection: TRUE while the timer is armed.
NoTimers ==
    [pingInterval |-> FALSE, connectionTimer |-> FALSE, pongTimer |-> FALSE]

\* Fault variant: cleanup() that leaves the pong timer alone.
cleanupKeepsPong(t) ==
    [pingInterval |-> FALSE, connectionTimer |-> FALSE,
     pongTimer |-> t.pongTimer]

\* cleanup(): clears each of the three timers whose handle is set.
cleanup(t) ==
    [pingInterval |-> IF t.pingInterval THEN FALSE ELSE t.pingInterval,
     connectionTimer |-> IF t.connectionTimer THEN FALSE
                         ELSE t.connectionTimer,
     pongTimer |-> IF t.pongTimer THEN FALSE ELSE t.pongTimer]

\* ---- runWebSocketConnection ----------------------------------------------
\* ws.on('open'): isConnected = true, the connection timer is cleared, the
\* ping interval is set and the catch-up poll is enqueued.
wsOpen ==
    /\ ws = "connecting"
    /\ Len(chain) < MaxQueue
    /\ ws' = "open"
    /\ timers' = [timers EXCEPT !.connectionTimer = FALSE,
                                !.pingInterval = TRUE]
    /\ enqueuePoll("open", curSess)
    /\ status' = setStatus(StatusUp)
    /\ UNCHANGED <<backoff, delay, tracked>>
    /\ UNCHANGED <<health, listeners, tickets>>
    /\ UNCHANGED <<build, stream, fileCursor, aborted, supPc, supCursor,
                   iterations, curSess, sessCursor, fb, delivered, syncHi>>

\* ws.on('message') with action 'notify'
wsNotify ==
    /\ ws = "open"
    /\ Len(chain) < MaxQueue
    /\ enqueuePoll("notify", curSess)
    /\ UNCHANGED <<backoff, delay, timers, tracked>>
    /\ UNCHANGED <<status, health, listeners, tickets>>
    /\ UNCHANGED <<build, stream, fileCursor, aborted, supPc, supCursor,
                   iterations, ws, curSess, sessCursor, fb, delivered, syncHi>>

\* The codes the 'close' event of the socket can carry: the code of the
\* gateway's own ws.close(code) once it has closed the socket, any code
\* while the other side closes it.  A behaviour that does not follow the
\* status has no use for the code.
CodesOf(w) ==
    IF tracked # "status" \/ w = "closing" THEN {1000}
    ELSE IF w = "closing1002" THEN {1002}
    ELSE CloseCodes

\* ws.on('close'): cleanup(), setStatus, resolve(cursor); the supervisor
\* assigns it and, as no exception was thrown, goes straight back to the
\* loop condition.
wsCloseWith(code) ==
    /\ CanCount
    /\ ws \in {"open", "closing", "closing1002"}
    /\ code \in CodesOf(ws)
    /\ status' = setStatus(closeStatus(code))
    /\ ws' = "none"
    /\ timers' = cleanup(timers)
    /\ curSess' = 0
    /\ supCursor' = sessCursor[curSess]
    /\ sessCursor' = Normalized(sessCursor, 0, chain)
    /\ supPc' = IF aborted THEN "exited" ELSE "ticket"
    /\ UNCHANGED <<backoff, delay, tracked>>
    /\ health' = Counted(health)
    /\ UNCHANGED <<listeners, tickets>>
    /\ UNCHANGED <<build, stream, fileCursor, aborted, iterations, chain, fb,
                   delivered, syncHi>>

wsClose == \E code \in CloseCodes : wsCloseWith(code)

\* Fault variant: the catch block breaks out of the loop on any error.
AfterCatchBreaks == "exited"

\* The catch block of the supervisor for an error that is not a ticket
\* failure: `if (aborted) break`, else nextBackoff and sleepWithAbort.
AfterCatch == IF aborted THEN "exited" ELSE "backoff"

\* ws.on('error'): cleanup(), reject(err); the catch block of the
\* supervisor runs.
wsError ==
    /\ CanCount
    /\ ws \in {"connecting", "open"}
    /\ ws' = "none"
    /\ timers' = cleanup(timers)
    /\ curSess' = 0
    /\ sessCursor' = Normalized(sessCursor, 0, chain)
    /\ supPc' = AfterCatch
    /\ SupervisorBackoff(supPc')
    /\ status' = setStatus([running |-> FALSE, lastError |-> "socket error"])
    /\ UNCHANGED tracked
    /\ health' = recordReconnect(Counted(health))
    /\ UNCHANGED <<listeners, tickets>>
    /\ UNCHANGED <<build, stream, fileCursor, aborted, supCursor, iterations,
                   chain, fb, delivered, syncHi>>

\* Fault variant: the connection timer closes the socket and does not
\* reject.
connectionTimeoutNoReject ==
    /\ timers.connectionTimer
    /\ ws = "connecting"
    /\ ws' = "none"
    /\ timers' = cleanup(timers)
    /\ UNCHANGED <<backoff, delay, tracked>>
    /\ UNCHANGED <<status, health, listeners, tickets>>
    /\ UNCHANGED <<build, stream, fileCursor, aborted, supPc, supCursor,
                   iterations, curSess, sessCursor, chain, fb, delivered,
                   syncHi>>

\* The connection timer fires before 'open': `if (!isConnected)` holds
\* (isConnected is set by 'open', which clears this timer), so cleanup(),
\* ws.close() and reject(); the catch block of the supervisor runs.  The
\* 'error' and 'close' events of the socket closed before it opened find
\* the timers cleared and the promise settled.
connectionTimeout ==
    /\ CanCount
    /\ timers.connectionTimer
    /\ ws = "connecting"
    /\ ws' = "none"
    /\ timers' = cleanup(timers)
    /\ curSess' = 0
    /\ sessCursor' = Normalized(sessCursor, 0, chain)
    /\ supPc' = AfterCatch
    /\ SupervisorBackoff(supPc')
    /\ UNCHANGED tracked
    /\ health' = recordReconnect(Counted(health))
    /\ UNCHANGED <<status, listeners, tickets>>
    /\ UNCHANGED <<build, stream, fileCursor, aborted, supCursor, iterations,
                   chain, fb, delivered, syncHi>>

\* A tick of the ping interval: on an open socket the ping is sent and the
\* pong timer is armed.  WS_PONG_TIMEOUT_MS (10 s) is shorter than
\* PING_INTERVAL_MS (5 min): at a tick the pong timer of the tick before
\* has been cleared or has fired.
pingTick ==
    /\ timers.pingInterval
    /\ ~timers.pongTimer
    /\ ws = "open"
    /\ timers' = [timers EXCEPT !.pongTimer = TRUE]
    /\ UNCHANGED <<backoff, delay, tracked>>
    /\ UNCHANGED <<status, health, listeners, tickets>>
    /\ UNCHANGED <<build, stream, fileCursor, aborted, supPc, supCursor,
                   iterations, ws, curSess, sessCursor, chain, fb, delivered,
                   syncHi>>

\* ws.on('message') with action 'pong': the pong timer is cleared.
wsPong ==
    /\ ws = "open"
    /\ timers.pongTimer
    /\ timers' = [timers EXCEPT !.pongTimer = FALSE]
    /\ UNCHANGED <<backoff, delay, tracked>>
    /\ UNCHANGED <<status, health, listeners, tickets>>
    /\ UNCHANGED <<build, stream, fileCursor, aborted, supPc, supCursor,
                   iterations, ws, curSess, sessCursor, chain, fb, delivered,
                   syncHi>>

\* What a message on the socket can be for the handler: the two actions it
\* knows, any other action, and data that JSON.parse or the read of
\* `msg.action` throws on.
Messages == {"notify", "pong", "unknown", "unparsable"}

\* Fault variant: every message that parses counts as a hint.
wsMessagePollsAlways(msg) ==
    IF msg # "unparsable" THEN wsNotify
    ELSE ws = "open" /\ UNCHANGED vars

\* ws.on('message'): 'notify' enqueues a poll, 'pong' clears the pong timer,
\* any other action is ignored, and an exception is caught and logged.
wsMessage(msg) ==
    IF msg = "notify" THEN wsNotify
    ELSE IF msg = "pong" THEN wsPong
    ELSE ws = "open" /\ UNCHANGED vars

\* Fault variant: the pong timer fires and only logs.
pongTimeoutLogsOnly ==
    /\ timers.pongTimer
    /\ timers' = [timers EXCEPT !.pongTimer = FALSE]
    /\ UNCHANGED <<backoff, delay, tracked>>
    /\ UNCHANGED <<status, health, listeners, tickets>>
    /\ UNCHANGED <<build, stream, fileCursor, aborted, supPc, supCursor,
                   iterations, ws, curSess, sessCursor, chain, fb, delivered,
                   syncHi>>

\* The pong timer fires: ws.close(1002, 'pong timeout').
pongTimeout ==
    /\ timers.pongTimer
    /\ timers' = [timers EXCEPT !.pongTimer = FALSE]
    /\ ws' = IF ws = "open" THEN "closing1002" ELSE ws
    /\ UNCHANGED <<backoff, delay, tracked>>
    /\ UNCHANGED <<status, health, listeners, tickets>>
    /\ UNCHANGED <<build, stream, fileCursor, aborted, supPc, supCursor,
                   iterations, curSess, sessCursor, chain, fb, delivered,
                   syncHi>>

\* ---- runPollingFallback ---------------------------------------------------
\* Fault variant: the while-condition admits one poll more.
FallbackLoopOneMore(iter) ==
    IF ~aborted /\ iter <= maxIterations
    THEN /\ supPc' = "poll"
         /\ iterations' = iter
         /\ fb' = StartedPoll("fallback", 0, supCursor)
         /\ status' = IF iter = 0 THEN setStatus(StatusUp) ELSE status
    ELSE /\ supPc' = AfterCatch
         /\ iterations' = 0
         /\ status' = setStatus(StatusDown)
         /\ UNCHANGED fb

\* The while-condition of runPollingFallback with `iter` polls done: the
\* next pollAndDeliver is called directly, or the function returns and the
\* supervisor's catch block goes on (`iterations` is a local of the call: it
\* is 0 outside of it).  The status is set to running before the first test
\* and to not running after the last.
FallbackLoop(iter) ==
    IF ~aborted /\ iter < maxIterations
    THEN /\ supPc' = "poll"
         /\ iterations' = iter
         /\ fb' = StartedPoll("fallback", 0, supCursor)
         /\ status' = IF iter = 0 THEN setStatus(StatusUp) ELSE status
    ELSE /\ supPc' = AfterCatch
         /\ iterations' = 0
         /\ status' = setStatus(StatusDown)
         /\ UNCHANGED fb

\* ---- startClawHouseConnection ---------------------------------------------
\* getWsTicket resolves: resetBackoff(backoff), then runWebSocketConnection
\* creates a WebSocket with the supervisor's cursor and arms the connection
\* timer.
getWsTicketOk ==
    /\ CanCount
    /\ CanTicket
    /\ CanListen
    /\ supPc = "ticket"
    /\ Sessions \ LiveSessions(curSess, chain) # {}
    /\ LET s == MinOf(Sessions \ LiveSessions(curSess, chain))
       IN  /\ curSess' = s
           /\ sessCursor' = [sessCursor EXCEPT ![s] = supCursor]
    /\ ws' = "connecting"
    /\ timers' = [NoTimers EXCEPT !.connectionTimer = TRUE]
    /\ supPc' = "session"
    /\ backoff' = IF tracked = "backoff" THEN [backoff EXCEPT !.attempt = 0]
                  ELSE backoff
    /\ UNCHANGED <<delay, tracked>>
    /\ health' = IF health.totalReconnects > 0 THEN recordReconnect(health)
                 ELSE health
    /\ listeners' = addEventListener(listeners)
    /\ tickets' = ConnectWithTicket(tickets)
    /\ UNCHANGED status
    /\ UNCHANGED <<build, stream, fileCursor, aborted, supCursor, iterations,
                   chain, fb, delivered, syncHi>>

\* The ways client.getWsTicket() rejects, named by the part of the message
\* of the Error that request() throws: 401/403, status >= 500, another
\* status that is not ok, an answer without result.data, the request timer,
\* and a rejection of fetch itself.
TicketErrors == {"authentication failed", "server error", "API error",
                 "invalid tRPC response", "timed out", "fetch failed"}

\* The test of the catch block: `message.includes('API error')`, in part_005
\* `|| message.includes('authentication failed') ||
\* message.includes('server error')`.
FallsBack(err) ==
    IF build = "gateway.ts" THEN err = "API error"
    ELSE err \in {"API error", "authentication failed", "server error"}

\* getWsTicket rejects with a message that passes the test: polling fallback.
getWsTicketApiError ==
    /\ CanCount
    /\ supPc = "ticket"
    /\ FallbackLoop(0)
    /\ SupervisorBackoff(supPc')
    /\ UNCHANGED <<timers, tracked>>
    /\ health' = recordReconnect(Counted(health))
    /\ UNCHANGED <<listeners, tickets>>
    /\ UNCHANGED <<build, stream, fileCursor, aborted, supCursor, ws,
                   curSess, sessCursor, chain, delivered, syncHi>>

\* getWsTicket rejects with a message that fails the test: 'Connection
\* error' is logged and the catch block goes on to the backoff.
getWsTicketOtherError ==
    /\ CanCount
    /\ supPc = "ticket"
    /\ supPc' = AfterCatch
    /\ SupervisorBackoff(supPc')
    /\ UNCHANGED <<timers, tracked>>
    /\ health' = recordReconnect(Counted(health))
    /\ UNCHANGED <<status, listeners, tickets>>
    /\ UNCHANGED <<build, stream, fileCursor, aborted, supCursor, iterations,
                   ws, curSess, sessCursor, chain, fb, delivered, syncHi>>

\* getWsTicket rejects with error `err`.
getWsTicketFail(err) ==
    IF FallsBack(err) THEN getWsTicketApiError ELSE getWsTicketOtherError

\* The timer of sleepWithAbort(POLL_FALLBACK_INTERVAL_MS) fires.  A sleep
\* that began after the signal had fired ends in this way only: its
\* listener is added to a signal whose one abort event is past.
wakePollSleep ==
    /\ supPc = "pollSleep"
    /\ FallbackLoop(iterations)
    /\ SupervisorBackoff(supPc')
    /\ UNCHANGED <<timers, tracked>>
    /\ UNCHANGED <<health, listeners, tickets>>
    /\ UNCHANGED <<build, stream, fileCursor, aborted, supCursor,
                   ws, curSess, sessCursor, chain, delivered, syncHi>>

\* The timer of sleepWithAbort(delay) of the reconnect backoff fires; the
\* block that declared `delay` is left.
wakeBackoff ==
    /\ supPc = "backoff"
    /\ supPc' = IF aborted THEN "exited" ELSE "ticket"
    /\ delay' = IF tracked = "backoff" THEN 0 ELSE delay
    /\ UNCHANGED <<backoff, timers, tracked>>
    /\ UNCHANGED <<status, health, listeners, tickets>>
    /\ UNCHANGED <<build, stream, fileCursor, aborted, supCursor, iterations,
                   ws, curSess, sessCursor, chain, fb, delivered, syncHi>>

\* ---- environment ----------------------------------------------------------
\* sleepWithAbort while the signal fires: the listener `onAbort`, added when
\* the sleep began, clears the timer and resolves.  The code after the
\* await runs before any other event is handled: the while-condition of
\* runPollingFallback fails, it returns, `if (aborted) break` (after the
\* backoff sleep: the condition of the outer loop fails) and the supervisor
\* returns.  A supervisor suspended anywhere else has no such listener.
sleepWithAbort(pc) == IF pc \in {"pollSleep", "backoff"} THEN "exited" ELSE pc

\* The abort signal fires: the session's listener calls cleanup() and
\* closes a socket that is connecting or open with code 1000, and a sleep
\* in progress resolves; runPollingFallback, when it was its sleep, sets
\* the status to not running on its way out.
abort ==
    /\ ~aborted
    /\ aborted' = TRUE
    /\ ws' = IF ws \in {"connecting", "open"} THEN "closing" ELSE ws
    /\ iterations' = 0
    /\ supPc' = sleepWithAbort(supPc)
    /\ timers' = cleanup(timers)
    /\ status' = IF supPc = "pollSleep" THEN setStatus(StatusDown) ELSE status
    /\ UNCHANGED <<backoff, delay, tracked>>
    /\ health' = clearHealthInterval(health)
    /\ listeners' = dispatchAbort(listeners)
    /\ UNCHANGED tickets
    /\ UNCHANGED <<build, stream, fileCursor, supCursor,
                   curSess, sessCursor, chain, fb, delivered, syncHi>>

\* A new event appears in the remote stream.
NewEvent(a) ==
    /\ Len(stream) < MaxEvents
    /\ stream' = Append(stream, a)
    /\ UNCHANGED <<backoff, delay, timers, tracked>>
    /\ UNCHANGED <<status, health, listeners, tickets>>
    /\ UNCHANGED <<build, fileCursor, aborted, supPc, supCursor, iterations,
                   ws, curSess, sessCursor, chain, fb, delivered, syncHi>>

\* ---- initial states ---------------------------------------------------------
\* The process starts with an empty stream window and either no cursor file
\* (first start) or the token an earlier run stored.
\* loadCursor: the stored token, or null without a file.
\* `readFileSync(...).trim() || null` in a try whose catch returns null.
\* The tokens of the model stand for cursors without white space at their
\* ends, which trim() returns as they are; EMPTY stands for a file that
\* holds nothing else.
loadCursor(file) ==
    IF file = UNREADABLE THEN NULL
    ELSE IF Truthy(file) THEN file ELSE NULL

InitOf(b) ==
    /\ build = b
    /\ stream = <<>>
    /\ fileCursor \in {NULL, 0}
    /\ aborted = FALSE
    /\ supPc = "ticket"
    /\ supCursor = loadCursor(fileCursor)
    /\ iterations = 0
    /\ ws = "none"
    /\ curSess = 0
    /\ sessCursor = [s \in Sessions |-> NULL]
    /\ chain = <<>>
    /\ fb = FreePoll
    /\ delivered = {}
    /\ syncHi = fileCursor
    /\ backoff = [attempt |-> 0]
    /\ delay = 0
    /\ timers = NoTimers
    /\ status = NoStatus
    /\ health = NoHealth
    /\ listeners = 0
    /\ tickets = <<>>

Init == InitOf("part_005") /\ tracked = "none"

InitGateway == InitOf("gateway.ts") /\ tracked = "none"

\* The start of the process over a cursor file that is missing, empty,
\* unreadable or holds a token.
InitStore ==
    /\ build = "part_005"
    /\ stream = <<>>
    /\ fileCursor \in {NULL, EMPTY, UNREADABLE, 0}
    /\ aborted = FALSE
    /\ supPc = "ticket"
    /\ supCursor = loadCursor(fileCursor)
    /\ iterations = 0
    /\ ws = "none"
    /\ curSess = 0
    /\ sessCursor = [s \in Sessions |-> NULL]
    /\ chain = <<>>
    /\ fb = FreePoll
    /\ delivered = {}
    /\ syncHi = loadCursor(fileCursor)
    /\ backoff = [attempt |-> 0]
    /\ delay = 0
    /\ timers = NoTimers
    /\ status = NoStatus
    /\ health = NoHealth
    /\ listeners = 0
    /\ tickets = <<>>
    /\ tracked = "none"

\* The start of a behaviour that follows the supervisor's backoff.
InitTracked == InitOf("part_005") /\ tracked = "backoff"

Next ==
    \/ \E i \in 0..MaxQueue : FetchReturn(i)
    \/ \E i \in 0..MaxQueue : FetchFail(i)
    \/ \E i \in 0..MaxQueue : DeliverReturn(i)
    \/ \E i \in 0..MaxQueue : DeliverThrow(i)
    \/ wsOpen
    \/ \E msg \in Messages : wsMessage(msg)
    \/ wsClose
    \/ wsError
    \/ connectionTimeout
    \/ getWsTicketOk
    \/ \E err \in TicketErrors : getWsTicketFail(err)
    \/ wakePollSleep
    \/ wakeBackoff
    \/ abort
    \/ \E a \in Authors : NewEvent(a)

Spec == Init /\ [][Next]_vars

SpecGateway == InitGateway /\ [][Next]_vars

TypeOK ==
    /\ fileCursor \in Cursors
    /\ supCursor \in Cursors
    /\ Len(chain) <= MaxQueue
    /\ \A i \in Slots : PollAt(i).cur \in Cursors

\* ---- specifications --------------------------------------------------------
\* The same program without deliverMessageToAgent ever rejecting.
NextNoThrow ==
    \/ \E i \in 0..MaxQueue : FetchReturn(i)
    \/ \E i \in 0..MaxQueue : FetchFail(i)
    \/ \E i \in 0..MaxQueue : DeliverReturn(i)
    \/ wsOpen
    \/ \E msg \in Messages : wsMessage(msg)
    \/ wsClose
    \/ wsError
    \/ connectionTimeout
    \/ getWsTicketOk
    \/ \E err \in TicketErrors : getWsTicketFail(err)
    \/ wakePollSleep
    \/ wakeBackoff
    \/ abort
    \/ \E a \in Authors : NewEvent(a)

SpecNoThrow == Init /\ [][NextNoThrow]_vars

\* The event loop runs every continuation that is ready; the source answers
\* requests, hints keep arriving on an open socket and timers fire.
Fairness ==
    /\ \A i \in 0..MaxQueue : SF_vars(FetchReturn(i))
    /\ \A i \in 0..MaxQueue : WF_vars(DeliverReturn(i) \/ DeliverThrow(i))
    /\ SF_vars(getWsTicketOk)
    /\ SF_vars(wsOpen)
    /\ SF_vars(wsNotify)
    /\ WF_vars(wakePollSleep)
    /\ WF_vars(wakeBackoff)

FairSpec == Init /\ [][Next]_vars /\ Fairness

\* The same program on a disk that refuses every write of the cursor file
\* (read-only or full).
NextReadOnly ==
    \/ \E i \in 0..MaxQueue : FetchReturnNoSave(i)
    \/ \E i \in 0..MaxQueue : FetchReturnSaveFails(i)
    \/ \E i \in 0..MaxQueue : FetchFail(i)
    \/ \E i \in 0..MaxQueue : DeliverReturnNoSave(i)
    \/ \E i \in 0..MaxQueue : DeliverReturnSaveFails(i)
    \/ \E i \in 0..MaxQueue : DeliverThrow(i)
    \/ wsOpen
    \/ \E msg \in Messages : wsMessage(msg)
    \/ wsClose
    \/ wsError
    \/ connectionTimeout
    \/ getWsTicketOk
    \/ \E err \in TicketErrors : getWsTicketFail(err)
    \/ wakePollSleep
    \/ wakeBackoff
    \/ abort
    \/ \E a \in Authors : NewEvent(a)

SpecReadOnly == Init /\ [][NextReadOnly]_vars

\* The same disk, with a cursor file that is missing, empty or unreadable
\* when the process starts.
SpecStore == InitStore /\ [][NextReadOnly]_vars

\* gateway.ts running for two accounts.
NextAccounts ==
    \/ Next
    \/ enqueuePollOther
    \/ \E i \in 1..MaxQueue : otherPollSettles(i)

SpecAccounts == InitGateway /\ [][NextAccounts]_vars

\* The fallback's own steps only: the request of its poll is answered or
\* fails (the client's request timer bounds it), the delivery it awaits
\* settles, and the timers of its two sleeps fire.
FallbackFairness ==
    /\ WF_vars(FetchReturn(0) \/ FetchFail(0))
    /\ WF_vars(DeliverReturn(0) \/ DeliverThrow(0))
    /\ WF_vars(wakePollSleep)
    /\ WF_vars(wakeBackoff)

FairFallbackSpec == Init /\ [][Next]_vars /\ FallbackFairness

\* The two functions of the backoff on their own: any sequence of calls of
\* nextBackoff and resetBackoff on one BackoffState.  The order of the steps
\* of the gateway does not depend on the length of a delay, and the
\* specifications of the gateway leave the BackoffState at its first value.
NextBackoff ==
    \/ \E j \in 0..(RandSteps - 1) : nextBackoff(j)
    \/ resetBackoff

BackoffSpec == Init /\ [][NextBackoff]_vars

\* The gateway with the BackoffState of the supervisor followed through
\* resetBackoff and nextBackoff.
SpecTracked == InitTracked /\ [][Next]_vars

\* The gateway with sessions that last long enough for the ping interval
\* to tick.
NextKeepalive ==
    \/ Next
    \/ pingTick
    \/ pongTimeout

SpecKeepalive == Init /\ [][NextKeepalive]_vars

\* The timers of a session fire unless they are cleared first, a socket
\* that is closing gets its 'close' event (the closing handshake is itself
\* bounded by a timer of the WebSocket), and the backoff sleep ends.
KeepaliveFairness ==
    /\ WF_vars(connectionTimeout)
    /\ WF_vars(pongTimeout)
    /\ WF_vars(ws \in {"closing", "closing1002"} /\ wsClose)
    /\ WF_vars(wakeBackoff)

FairKeepaliveSpec == Init /\ [][NextKeepalive]_vars /\ KeepaliveFairness

\* ---- helpers of the claims ---------------------------------------------------
\* Poll i returns in this step.
Returns(i) ==
    IF i = 0 THEN fb.st # "free" /\ fb'.st = "free"
    ELSE i <= Len(chain) /\ Len(chain') = Len(chain) - 1

\* Poll i calls deliverMessageToAgent with event k in this step.
Delivers(i, k) ==
    /\ i \in Slots
    /\ FetchReturn(i) \/ DeliverReturn(i)
    /\ ~Returns(i)
    /\ PollAt(i)'.st = "deliver"
    /\ PollAt(i)'.idx = k

\* The events of the page a normal-run poll with cursor `cur` got up to hi.
PageOf(cur, hi) == (cur + 1)..hi

\* The cursor variable of the caller of poll r after the step (a closure
\* that is no longer reachable after the step has none).
CallerLive(r) ==
    r.via = "fallback" \/ r.sess \in LiveSessions(curSess', chain')

CallerCursorAfter(r) ==
    IF r.via = "fallback" THEN supCursor' ELSE sessCursor'[r.sess]

\* A notify poll of the chain that stands behind the catch-up poll of its own
\* session: the hint arrived while that catch-up poll was unsettled.
HintBehindCatchUp(j) ==
    /\ j \in 2..Len(chain)
    /\ chain[j].via = "notify"
    /\ chain[1].via = "open"
    /\ chain[1].sess = chain[j].sess

\* What a restart of the process would fetch first.
RestartPage == ListMessages(apiCursorOf(loadCursor(fileCursor)))

\* ---- C1 ----------------------------------------------------------------------
\* C1: for the account, at most one pollAndDeliver execution is in flight at
\* any time, whether started by the chain (open, notify) or by the fallback.
C1_AtMostOnePollInFlight == Cardinality(InFlight) <= 1

\* ---- C2 ----------------------------------------------------------------------
\* C2: with the abort signal unset for ever, every event of another author
\* that appears in the stream after a synchronization has completed is
\* eventually passed to deliverMessageToAgent.
C2_EventuallyDelivered ==
    ([]~aborted) =>
        \A k \in Events :
            []((syncHi >= 0 /\ Len(stream) < k) =>
                 []((Len(stream) >= k /\ stream[k] = "user") =>
                      <>(k \in delivered)))

\* ---- C3 ----------------------------------------------------------------------
\* C3: when no delivery call throws, no event is passed to
\* deliverMessageToAgent more than once.
C3_AtMostOnce ==
    [][\A i \in Slots : \A k \in Events :
          Delivers(i, k) => k \notin delivered]_vars

\* ---- C4 ----------------------------------------------------------------------
\* C4: every event of another author that lies at or before the persisted
\* cursor and was not covered by a first-run synchronization has been passed
\* to deliverMessageToAgent; so a restart from the cursor file fetches every
\* such event that is still undelivered.
C4_CursorOnlyPastHandled ==
    \A k \in 1..Len(stream) :
        (stream[k] = "user" /\ k \notin delivered /\ k > syncHi)
            => (k > fileCursor /\ k >= RestartPage.lo)

\* The cursor file stands behind an event of another author that no
\* synchronization covered and that was delivered.
C4_Witness ==
    \E k \in 1..Len(stream) :
        /\ stream[k] = "user"
        /\ k > syncHi
        /\ k <= fileCursor
        /\ k \in delivered

\* ---- C5 ----------------------------------------------------------------------
C5_NoOverlap ==
    \A j \in 1..Len(chain) : HintBehindCatchUp(j) => ~Running(chain[j])

C5_Handover ==
    (HintBehindCatchUp(2) /\ Returns(1))
    => /\ chain'[1].st = "fetch"
       /\ chain'[1].cur = sessCursor'[chain[1].sess]
       /\ (chain[1].st = "deliver" /\ DeliverReturn(1)) =>
              /\ chain'[1].cur = chain[1].hi
              /\ chain'[1].cur # chain[1].cur
       /\ (/\ chain[1].st = "fetch"
           /\ FetchReturn(1)
           /\ ListMessages(apiCursorOf(chain[1].cur)).cursor # NULL) =>
              /\ chain'[1].cur = ListMessages(apiCursorOf(chain[1].cur)).cursor
              /\ chain'[1].cur # chain[1].cur

C6_Step ==
    \A i \in Slots :
        (PollAt(i).cur = NULL /\ Len(stream) > 0 /\ FetchReturn(i)) =>
            /\ delivered' = delivered
            /\ fileCursor' = ListMessages(NULL).cursor

\* C6: a poll called with an absent cursor to which the source returns
\* events and a cursor passes no event to deliverMessageToAgent and writes
\* that cursor to the cursor file.
C6_FirstRunSuppression == [][C6_Step]_vars

\* A synchronization over existing events has written their cursor and
\* nothing was delivered.
C6_Witness ==
    /\ syncHi >= 1
    /\ fileCursor = syncHi
    /\ delivered = {}

\* ---- C7 ----------------------------------------------------------------------
C7_Step ==
    \A i \in Slots :
        (/\ PollAt(i).cur = SEED
         /\ NextDeliverable(1, Len(stream)) # 0
         /\ FetchReturn(i)) =>
            NextDeliverable(1, Len(stream)) \in delivered'

\* C7: a poll called with the SEED sentinel fetches and delivers normally:
\* the first event of another author in its page is passed to
\* deliverMessageToAgent when listMessages answers.
C7_SeedPollDelivers == [][C7_Step]_vars

\* ---- C8 ----------------------------------------------------------------------
C8_Step ==
    \A i \in Slots :
        (PollAt(i).cur = NULL /\ Len(stream) = 0 /\ FetchReturn(i)) =>
            fileCursor' = SEED

\* C8: a poll called with an absent cursor to which the source returns no
\* items and a null cursor leaves the SEED sentinel in the cursor file.
C8_SeedPersisted == [][C8_Step]_vars

\* ---- C9 ----------------------------------------------------------------------
C9_Step ==
    \A i \in Slots :
        (PollAt(i).st = "deliver" /\ DeliverThrow(i)) =>
            /\ \A k \in PageOf(PollAt(i).cur, PollAt(i).hi) :
                   stream[k] = "user" => k \in delivered'
            /\ fileCursor' = PollAt(i).hi

\* C9: when a normal-run poll returns after a delivery of its page threw,
\* every other event of another author of the page has been passed to
\* deliverMessageToAgent and the cursor file holds the page's cursor.
C9_PartialPageDurability == [][C9_Step]_vars

\* ---- C10 ---------------------------------------------------------------------
C10_NeverDelivered ==
    \A k \in 1..Len(stream) : stream[k] = "bot" => k \notin delivered

C10_Advance ==
    \A i \in Slots :
        LET r == PollAt(i)
            hi == IF r.st = "fetch" THEN Len(stream) ELSE r.hi
        IN  (/\ Returns(i)
             /\ Running(r)
             /\ ~isFirstRun(r.cur)
             /\ \E k \in PageOf(r.cur, hi) : stream[k] = "bot"
             /\ FetchReturn(i) \/ DeliverReturn(i))
            => /\ fileCursor' = hi
               /\ CallerLive(r) => CallerCursorAfter(r) = hi

\* C10: no event authored by the bot is ever passed to
\* deliverMessageToAgent, and a normal-run poll that reaches the end of a
\* page containing such events writes the page's cursor to the cursor file
\* and returns it to its caller.
C10_SelfEchoFiltering == [](C10_NeverDelivered) /\ [][C10_Advance]_vars

\* The cursor file stands behind a bot event of a delivered page that was
\* not delivered.
C10_Witness ==
    \E k \in 1..Len(stream) :
        /\ stream[k] = "bot"
        /\ k > syncHi
        /\ k <= fileCursor
        /\ k \notin delivered
        /\ \E j \in 1..Len(stream) : j > syncHi /\ j \in delivered

\* ---- C11 ---------------------------------------------------------------------
\* The supervisor is inside runPollingFallback.
InFallback == supPc \in {"poll", "pollSleep"}

C11_AtMostTen ==
    /\ iterations <= maxIterations
    /\ supPc = "poll" => iterations < maxIterations

C11_Exit ==
    (supPc = "pollSleep" /\ wakePollSleep /\ ~InFallback')
        => (aborted \/ iterations = maxIterations)

\* C11: a run of the polling fallback makes at most 10 polls, it ends before
\* the 10th only when the abort signal is set, and while the signal is unset
\* the supervisor always gets from the fallback to the next ticket request.
C11_FallbackBounded ==
    /\ [](C11_AtMostTen)
    /\ [][C11_Exit]_vars
    /\ (InFallback ~> (aborted \/ supPc = "ticket"))

\* The fallback has made its 10th poll and sleeps before its loop ends.
C11_Witness ==
    /\ supPc = "pollSleep"
    /\ iterations = maxIterations
    /\ ~aborted

\* ---- C12 ---------------------------------------------------------------------
C12_Step ==
    \A err \in TicketErrors :
        (supPc = "ticket" /\ ~aborted /\ getWsTicketFail(err))
            => supPc' = "poll"

\* C12: whenever getWsTicket rejects while the abort signal is unset,
\* whatever the error, the supervisor goes on and its next step is the first
\* poll of the polling fallback.
C12_TicketFailureFallsBack == [][C12_Step]_vars

\* ---- C13 ---------------------------------------------------------------------
C13_Step ==
    (ws \in {"connecting", "open"} /\ ~aborted /\ wsError)
        => supPc' = "poll"

\* C13: when the socket of the session fails while the abort signal is unset
\* (error event or connection timer), the supervisor's next step is the
\* first poll of the polling fallback.
C13_TransportFailureFallsBack == [][C13_Step]_vars

\* ---- C14 ---------------------------------------------------------------------
\* The attempts nextBackoff has been called with since the last reset.
AttemptsDone == 0..(backoff.attempt - 1)

C14_MonotoneCapped ==
    \A a \in AttemptsDone :
        /\ BackoffDelay(a) <= BACKOFF_MAX_MS * TicksPerMs
        /\ a > 0 => BackoffDelay(a - 1) <= BackoffDelay(a)

C14_JitterStep ==
    \A j \in 0..(RandSteps - 1) :
        nextBackoff(j) =>
            /\ delay' >= BackoffDelay(backoff.attempt)
            /\ 4 * (delay' - BackoffDelay(backoff.attempt))
                   <= BackoffDelay(backoff.attempt)

C14_ResetStep ==
    resetBackoff => BackoffDelay(backoff'.attempt) = BACKOFF_INITIAL_MS * TicksPerMs

\* C14: the delay of nextBackoff without its jitter never exceeds 30000 ms
\* and does not decrease from one attempt to the next; the value returned
\* exceeds it by a jitter of 0 to 25 % of it; and after resetBackoff the
\* delay of the next call is 2000 ms.
C14_BackoffMonotoneCapped ==
    /\ [](C14_MonotoneCapped)
    /\ [][C14_JitterStep]_vars
    /\ [][C14_ResetStep]_vars

\* nextBackoff has been called with an attempt whose delay is the cap, after
\* calls whose delays were below it, and returned more than the cap.
C14_Witness ==
    /\ \E a \in AttemptsDone : BackoffDelay(a) = BACKOFF_MAX_MS * TicksPerMs
    /\ \E a \in AttemptsDone : BackoffDelay(a) < BACKOFF_MAX_MS * TicksPerMs
    /\ delay > BACKOFF_MAX_MS * TicksPerMs

\* ---- C15 ---------------------------------------------------------------------
C15_Step ==
    (supPc # "ticket" /\ supPc' = "ticket") => (supPc = "backoff" /\ wakeBackoff)

\* C15: the supervisor gets to a ticket request, other than the first one,
\* only by waking from the backoff sleep.
C15_BackoffBeforeReconnect == [][C15_Step]_vars

\* ---- C16 ---------------------------------------------------------------------
\* C16: startClawHouseConnection has returned only if the abort signal is
\* set, whatever failed before: a ticket request, a session, a fetch, a
\* delivery or a write of the cursor file.
C16_ExitOnlyAfterAbort == supPc = "exited" => aborted

\* The supervisor has returned with the cursor of a delivered page, and no
\* cursor file exists: no failed write had made it leave earlier.
C16_Witness ==
    /\ supPc = "exited"
    /\ supCursor \in Events
    /\ supCursor \in delivered
    /\ fileCursor = NULL

\* ---- C17 ---------------------------------------------------------------------
\* C17: once the abort signal is set, no socket of the account is connecting
\* or open: the one that was has been closed by the gateway with code 1000,
\* and no new one is created.
C17_AbortClosesSocket == aborted => ws \notin {"connecting", "open"}

\* ---- C18 ---------------------------------------------------------------------
Account(q) == IF q.via = "other" THEN "other" ELSE "this"

\* C18: a poll that has been enqueued and has not started waits for an
\* earlier poll of its own account, never only for polls of another account.
C18_AccountsIndependent ==
    \A j \in 1..Len(chain) :
        chain[j].st = "queued" =>
            \E i \in 1..(j - 1) : Account(chain[i]) = Account(chain[j])

\* ---- C19 ---------------------------------------------------------------------
\* The polls that await a call of deliverMessageToAgent.
Delivering == {i \in Slots : PollAt(i).st = "deliver"}

C19_NoOverlap == Cardinality(Delivering) <= 1

C19_InOrder ==
    \A i \in Slots : \A k \in Events :
        Delivers(i, k) => \A j \in delivered : j < k

\* C19: no two calls of deliverMessageToAgent of the account are pending at
\* the same time, and every call is for an event later in the stream than
\* every event a call was made for before.
C19_OrderedNoOverlap == [](C19_NoOverlap) /\ [][C19_InOrder]_vars

\* ---- C20 ---------------------------------------------------------------------
\* Only the oldest unsettled link of the chain runs; the others wait.
C20_HeadOnly ==
    \A j \in 1..Len(chain) :
        /\ j > 1 => chain[j].st = "queued"
        /\ j = 1 => chain[j].st # "queued"

\* When the running poll settles, by a return, a failed fetch or a delivery
\* that throws, the links behind it keep their order and the next one starts.
C20_Handover ==
    (Len(chain) >= 2 /\ Returns(1)) =>
        /\ Len(chain') = Len(chain) - 1
        /\ chain'[1].via = chain[2].via
        /\ chain'[1].sess = chain[2].sess
        /\ chain'[1].st = "fetch"
        /\ chain'[1].cur = sessCursor'[chain[2].sess]
        /\ \A j \in 2..Len(chain') : chain'[j] = chain[j + 1]

\* An enqueued poll goes to the tail of the chain.
C20_Append ==
    (Len(chain') > Len(chain)) =>
        /\ Len(chain') = Len(chain) + 1
        /\ \A j \in 1..Len(chain) : chain'[j] = chain[j]

\* C20: the polls enqueued through enqueuePoll run one at a time in the order
\* they were enqueued, each starting in the step in which the one before it
\* settles, whether that one returned a page, failed to fetch or threw.
C20_ChainOrder ==
    /\ [](C20_HeadOnly)
    /\ [][C20_Handover]_vars
    /\ [][C20_Append]_vars

\* A poll waits in the chain behind a poll whose delivery is pending (and may
\* throw).
C20_Witness ==
    /\ Len(chain) >= 2
    /\ chain[1].st = "deliver"
    /\ chain[2].st = "queued"
    /\ chain[2].via = "notify"

\* ---- C21 ---------------------------------------------------------------------
\* The events of another author of the page of poll r that were delivered
\* before the delivery it awaits.
DeliveredBefore(r) ==
    {j \in PageOf(r.cur, r.idx - 1) : stream[j] = "user"}

C21_Step ==
    \A i \in Slots :
        LET r == PollAt(i)
        IN  (/\ r.st = "deliver"
             /\ DeliveredBefore(r) # {}
             /\ DeliverThrow(i))
            => \A j \in DeliveredBefore(r) :
                   /\ fileCursor' >= j
                   /\ CallerLive(r) => CallerCursorAfter(r) >= j

\* C21: when a delivery of a page throws, the cursor file and the cursor of
\* the poll's caller stand at or after every event of the page that was
\* delivered before it, so that the next poll does not fetch them again.
C21_CursorAfterEachDelivery == [][C21_Step]_vars

\* ---- C22 ---------------------------------------------------------------------
C22_Step ==
    (/\ curSess # 0
     /\ ~aborted
     /\ wsClose \/ wsError)
    => supCursor' = sessCursor[curSess]

\* C22: when the session ends while the abort signal is unset, by a close of
\* the socket or by an error, the supervisor's cursor becomes the cursor of
\* the session's closure, the latest one its polls have set.
C22_SessionCursorHandedBack == [][C22_Step]_vars

\* ---- C23 ---------------------------------------------------------------------
\* Position of a cursor in the stream (null, '' and SEED stand before it).
Rank(c) == IF c \in Tokens THEN c ELSE 0 - 1

\* The fallback's poll, or the poll at the head of the chain, begins in this
\* step.
FallbackPollBegins == fb.st # "fetch" /\ fb'.st = "fetch"

ChainPollBegins ==
    /\ Len(chain') >= 1
    /\ chain'[1].st = "fetch"
    /\ Len(chain) = 0 \/ Len(chain') < Len(chain)

C23_Step ==
    /\ FallbackPollBegins => Rank(fb'.cur) >= Rank(fileCursor')
    /\ ChainPollBegins => Rank(chain'[1].cur) >= Rank(fileCursor')

\* C23: a poll that begins fetches from a cursor that stands at or after the
\* cursor in the cursor file.
C23_PollStartsAtPersistedCursor == [][C23_Step]_vars

\* ---- C24 ---------------------------------------------------------------------
C24_Step ==
    /\ Rank(fileCursor') >= Rank(fileCursor)
    /\ Rank(supCursor') >= Rank(supCursor)

\* C24: no step moves the cursor file or the supervisor's cursor to an
\* earlier position of the stream.
C24_CursorMonotone == [][C24_Step]_vars

\* ---- C30 ---------------------------------------------------------------------
\* The cursor variable of the caller of poll r before the step.
CallerCursor(r) == IF r.via = "fallback" THEN supCursor ELSE sessCursor[r.sess]

C30_Step ==
    \A i \in Slots :
        LET r == PollAt(i)
        IN  (r.st = "fetch" /\ FetchFail(i)) =>
                /\ delivered' = delivered
                /\ fileCursor' = fileCursor
                /\ CallerLive(r) => CallerCursorAfter(r) = CallerCursor(r)
                /\ (/\ i >= 1
                    /\ Len(chain) > i
                    /\ chain[i + 1].sess = r.sess) =>
                       /\ chain'[i].st = "fetch"
                       /\ chain'[i].cur = CallerCursor(r)

\* C30: a poll whose listMessages request fails delivers nothing and leaves
\* the cursor file and its caller's cursor as they were; the next poll of
\* the same session in the chain starts from that same cursor.
C30_FetchFailureLeavesCursor == [][C30_Step]_vars

\* The fetch of a catch-up poll may fail while a hint's poll of the same
\* session waits behind it and events it would fetch exist.
C30_Witness ==
    /\ Len(chain) >= 2
    /\ chain[1].st = "fetch"
    /\ chain[1].via = "open"
    /\ chain[2].sess = chain[1].sess
    /\ Rank(chain[1].cur) < Len(stream)

\* ---- C26 ---------------------------------------------------------------------
\* C26: once the abort signal is set the supervisor is in no sleepWithAbort
\* that waits for its timer, neither the backoff sleep nor the sleep between
\* two fallback polls.
C26_NoSleepAfterAbort == aborted => supPc \notin {"pollSleep", "backoff"}

\* ---- C25 ---------------------------------------------------------------------
C25_ResetOnlyOnOpen ==
    (backoff'.attempt < backoff.attempt) => (ws # "open" /\ ws' = "open")

C25_GrowsWithEachDelay ==
    (supPc # "backoff" /\ supPc' = "backoff")
        => backoff'.attempt = backoff.attempt + 1

\* C25: the attempt counter of the supervisor's backoff goes down only in a
\* step in which the socket of a session opens, and goes up by one in every
\* step that computes a reconnect delay.
C25_ResetOnlyOnConnection ==
    [][C25_ResetOnlyOnOpen /\ C25_GrowsWithEachDelay]_vars

\* ---- C27 ---------------------------------------------------------------------
\* The promise of runWebSocketConnection is settled: the supervisor is no
\* longer suspended on it.
SessionSettled == supPc # "session"

\* C27: once the promise of a session has settled none of its three timers
\* is armed, and running cleanup() once more changes nothing.
C27_TimersReleased ==
    /\ SessionSettled => timers = NoTimers
    /\ cleanup(timers) = NoTimers
    /\ cleanup(cleanup(timers)) = cleanup(timers)

\* A session that had opened (its poll is still in the chain) has ended by
\* an error, and the supervisor is in its backoff sleep.
C27_Witness ==
    /\ supPc = "backoff"
    /\ timers = NoTimers
    /\ status = NoStatus
    /\ health = NoHealth
    /\ listeners = 0
    /\ tickets = <<>>
    /\ chain # <<>>
    /\ chain[1].via \in {"open", "notify"}

\* ---- C28 ---------------------------------------------------------------------
C28_TimeoutStep ==
    (ws = "connecting" /\ connectionTimeout) =>
        /\ ws' = "none"
        /\ SessionSettled'
        /\ supPc' = IF aborted THEN "exited" ELSE "backoff"

\* C28: when the connection timer fires the session's promise rejects, the
\* socket is closed and the supervisor goes on to its backoff sleep (it
\* returns if the abort signal is set); a session whose socket is connecting
\* always opens or ends, and the backoff sleep always leads to the next
\* ticket request unless the gateway is shut down.
C28_ConnectionTimeout ==
    /\ [][C28_TimeoutStep]_vars
    /\ (ws = "connecting" ~> (ws = "open" \/ SessionSettled))
    /\ (supPc = "backoff" ~> (supPc = "ticket" \/ aborted))

\* The state the connection timer leaves behind when it fires on the first
\* socket: no socket, no poll ever enqueued, the supervisor in its backoff
\* sleep.
C28_Witness ==
    /\ supPc = "backoff"
    /\ ws = "none"
    /\ chain = <<>>
    /\ fb = FreePoll
    /\ stream = <<>>
    /\ ~aborted

\* ---- C29 ---------------------------------------------------------------------
C29_PingStep == (ws = "open" /\ pingTick) => timers'.pongTimer

C29_TimeoutStep ==
    (ws = "open" /\ timers.pongTimer /\ pongTimeout) => ws' = "closing1002"

C29_PongStep ==
    (timers.pongTimer /\ wsPong) => (~timers'.pongTimer /\ ws' = "open")

\* C29: a ping sent on an open socket arms the pong timer; when the timer
\* fires the socket is closed with code 1002 and the session then ends; a
\* pong that arrives first clears the timer and leaves the socket open; an
\* armed pong timer always ends in one of the two ways or with the session.
C29_PongTimeout ==
    /\ [][C29_PingStep /\ C29_TimeoutStep /\ C29_PongStep]_vars
    /\ (ws = "closing1002" ~> SessionSettled)
    /\ (timers.pongTimer ~>
           ((ws = "open" /\ ~timers.pongTimer) \/ SessionSettled))

\* The pong timer has fired: the socket is closing with code 1002, the
\* session has not ended yet and its ping interval is still set.
C29_Witness ==
    /\ ws = "closing1002"
    /\ supPc = "session"
    /\ timers.pingInterval
    /\ ~timers.pongTimer

\* ---- C31 ---------------------------------------------------------------------
C31_Step ==
    /\ supCursor \in Tokens => supCursor' \in Tokens
    /\ \A s \in Sessions :
           (sessCursor[s] \in Tokens /\ s \in LiveSessions(curSess', chain'))
               => sessCursor'[s] \in Tokens

\* C31: a cursor variable of the supervisor, of its fallback or of a session
\* closure that still has a reader, once it holds a token of the source,
\* holds a token after every step: no poll that ends with an empty page,
\* without a cursor or with a failed request puts null, '' or 'SEED' in its
\* place.
C31_TokenNeverReplaced == [][C31_Step]_vars

\* The fallback has finished a poll that found nothing after the stored
\* cursor, and its cursor is still that token.
C31_Witness ==
    /\ supPc = "pollSleep"
    /\ iterations >= 1
    /\ stream = <<>>
    /\ supCursor = 0

\* ---- C32 ---------------------------------------------------------------------
\* The cursor that poll r is about to persist and return.
CursorToSave(r) ==
    IF r.st = "fetch" THEN ListMessages(apiCursorOf(r.cur)).cursor ELSE r.hi

C32_Start ==
    fileCursor \in {NULL, EMPTY, UNREADABLE}
        => (supCursor = NULL /\ supPc = "ticket")

C32_SaveFailStep ==
    \A i \in Slots :
        LET r == PollAt(i)
        IN  (/\ Running(r)
             /\ FetchReturnSaveFails(i) \/ DeliverReturnSaveFails(i)) =>
                /\ fileCursor' = fileCursor
                /\ Returns(i)
                /\ CallerLive(r) => CallerCursorAfter(r) = CursorToSave(r)
                /\ (/\ i >= 1
                    /\ Len(chain) > i
                    /\ chain[i + 1].sess = r.sess) =>
                       /\ chain'[i].st = "fetch"
                       /\ chain'[i].cur = CursorToSave(r)

\* C32: over a cursor file that is missing, empty or unreadable the
\* supervisor starts at its loop with no cursor; and a poll whose write of
\* the cursor file fails still returns the new cursor: its caller's cursor
\* becomes that cursor and the next poll of the session fetches from it.
C32_StoreFailuresNotFatal == C32_Start /\ [][C32_SaveFailStep]_vars

\* Started over an unreadable file, a session has seeded its cursor at
\* event 1 and then delivered event 2: no write succeeded, and the cursor
\* of the session is the token of event 2.
C32_Witness ==
    /\ fileCursor = UNREADABLE
    /\ curSess # 0
    /\ Len(stream) = 2
    /\ delivered = {2}
    /\ sessCursor[curSess] = 2

\* ---- C33 ---------------------------------------------------------------------
\* Exactly one poll of the current session is added to the chain.
EnqueuesOne(via) ==
    /\ Len(chain') = Len(chain) + 1
    /\ SubSeq(chain', 1, Len(chain)) = chain
    /\ chain'[Len(chain')].via = via
    /\ chain'[Len(chain')].sess = curSess

C33_Step ==
    /\ (ws = "connecting" /\ wsOpen) => EnqueuesOne("open")
    /\ \A msg \in Messages :
           (ws = "open" /\ wsMessage(msg)) =>
               /\ delivered' = delivered
               /\ fb' = fb
               /\ IF msg = "notify" THEN EnqueuesOne("notify")
                  ELSE chain' = chain
    /\ Len(chain') > Len(chain) => (wsOpen \/ wsMessage("notify"))

\* C33: the 'open' event enqueues exactly one poll, each notify message
\* exactly one, every other message none; no handler of the socket delivers
\* anything itself; and nothing else adds a poll to the chain.
C33_PollTriggers == [][C33_Step]_vars

\* On an open socket with a ping unanswered, the chain holds the catch-up
\* poll and behind it the poll of one hint.
C33_Witness ==
    /\ ws = "open"
    /\ timers.pongTimer
    /\ Len(chain) = 2
    /\ chain[1].via = "open"
    /\ chain[2].via = "notify"
    /\ chain[2].st = "queued"

\* ---- the account status ---------------------------------------------------
\* The supervisor of the part_005 build in a behaviour that follows the
\* status.
InitStatus == InitOf("part_005") /\ tracked = "status"

\* gateway.stopAccount of the channel plugin: it logs and sets the status
\* to not running.  It reads neither the abort signal nor the state of the
\* connection, and the adapter's interface puts no condition on the call.
stopAccount ==
    /\ status' = setStatus(StatusDown)
    /\ status' # status
    /\ UNCHANGED <<backoff, delay, timers, tracked>>
    /\ UNCHANGED <<health, listeners, tickets>>
    /\ UNCHANGED <<build, stream, fileCursor, aborted, supPc, supCursor,
                   iterations, ws, curSess, sessCursor, chain, fb, delivered,
                   syncHi>>

NextStatus == Next \/ stopAccount

SpecStatus == InitStatus /\ [][NextStatus]_vars

\* The supervisor alone, without calls of stopAccount.
SpecStatusSupervisor == InitStatus /\ [][Next]_vars

\* C34: every 'close' event resolves with the session's cursor and takes the
\* supervisor back to the loop condition, and its handler records lastError
\* exactly when the code is neither 1000 nor 1001.
C34_CloseStep ==
    \A code \in CloseCodes :
        wsCloseWith(code) =>
            /\ supCursor' = sessCursor[curSess]
            /\ supPc' \in {"ticket", "exited"}
            /\ status'.lastError # "absent" <=> code \notin {1000, 1001}

C34_CloseRecordsLastError == [][C34_CloseStep]_vars


\* A delivery path is active: the socket of a session has opened and its
\* 'close' or 'error' event has not come, or a polling-fallback episode is
\* under way.
DeliveryPathActive ==
    \/ ws \in {"open", "closing1002"}
    \/ supPc \in {"poll", "pollSleep"}

\* C35: the status says running exactly while a delivery path is active
\* (a socket that the abort closes may have been connecting or open), and
\* it says not running once the supervisor has returned.
C35_RunningWhileActive ==
    /\ DeliveryPathActive => status.running
    /\ status.running => DeliveryPathActive \/ ws = "closing"
    /\ supPc = "exited" => ~status.running

\* ---- health tracking (part_005) -------------------------------------------
\* startClawHouseConnection up to its loop: the counter is 0, the account's
\* entry of healthState is new, healthInterval is armed and the listener
\* that clears it is added.  The signal may have fired before the call: the
\* loop condition fails at once and the function returns.
InitHealth ==
    /\ build = "part_005"
    /\ stream = <<>>
    /\ fileCursor \in {NULL, 0}
    /\ aborted \in BOOLEAN
    /\ supPc = IF aborted THEN "exited" ELSE "ticket"
    /\ supCursor = loadCursor(fileCursor)
    /\ iterations = 0
    /\ ws = "none"
    /\ curSess = 0
    /\ sessCursor = [s \in Sessions |-> NULL]
    /\ chain = <<>>
    /\ fb = FreePoll
    /\ delivered = {}
    /\ syncHi = fileCursor
    /\ backoff = [attempt |-> 0]
    /\ delay = 0
    /\ timers = NoTimers
    /\ tracked = "health"
    /\ status = NoStatus
    /\ health = [NoHealth EXCEPT !.interval = TRUE]
    /\ listeners = 0
    /\ tickets = <<>>

\* A tick of healthInterval: `if (!ctx.abortSignal.aborted)` the summary is
\* logged; nothing of the state changes.
healthTick ==
    /\ health.interval
    /\ UNCHANGED vars

NextHealth == Next \/ healthTick

SpecHealth == InitHealth /\ [][NextHealth]_vars

\* C36: healthInterval is cleared when the abort signal fires and on every
\* way out of the supervisor, a start with the signal already set included:
\* it is never armed while the signal is set or after the return.
C36_HealthIntervalReleased ==
    aborted \/ supPc = "exited" => ~health.interval

\* C40: the reconnect count of the health tracker equals the supervisor's
\* totalReconnects at every point.
C40_HealthCountsReconnects == health.reconnects = health.totalReconnects

\* ---- listeners on the abort signal ----------------------------------------
InitListeners == InitOf("part_005") /\ tracked = "listeners"

SpecListeners == InitListeners /\ [][Next]_vars

\* The listener of a sleepWithAbort in progress: added when the sleep
\* begins, removed by the timer's callback or consumed by the abort.
SleepListeners == IF supPc \in {"pollSleep", "backoff"} THEN 1 ELSE 0

\* The listener of the supervisor that clears healthInterval (part_005),
\* consumed by the abort.
SupervisorListeners == IF build = "part_005" /\ ~aborted THEN 1 ELSE 0

\* All 'abort' listeners of the gateway on the account's signal.
AbortListeners == listeners + SleepListeners + SupervisorListeners

\* The listeners that belong to something in progress: the session the
\* supervisor awaits, its sleep, and the supervisor itself.
ListenersInUse ==
    (IF supPc = "session" THEN 1 ELSE 0) + SleepListeners
    + SupervisorListeners

\* C37: the 'abort' listeners on the signal are those of the session and
\* the sleep in progress and of the supervisor: a session or a sleep that
\* has ended has left none behind.
C37_ListenersBounded == AbortListeners <= ListenersInUse

\* ---- tickets ---------------------------------------------------------------
InitTickets == InitOf("part_005") /\ tracked = "tickets"

SpecTickets == InitTickets /\ [][Next]_vars

\* A WebSocket is created in this step.
SocketCreated == ws # "connecting" /\ ws' = "connecting"

\* C38: a step that creates a WebSocket has asked for a ticket of its own,
\* the socket is the first one created with it, and no ticket has ever been
\* given to two sockets.
C38_Step ==
    /\ SocketCreated =>
           /\ Len(tickets') = Len(tickets) + 1
           /\ tickets'[Len(tickets')] = 1
           /\ \A i \in DOMAIN tickets : tickets'[i] = tickets[i]
    /\ \A i \in DOMAIN tickets' : tickets'[i] <= 1

C38_TicketsSingleUse == [][C38_Step]_vars

\* Two sessions have been started, each with its own ticket.
C38_Witness == Len(tickets) = 2 /\ tickets[1] = 1 /\ tickets[2] = 1

\* ---- C39 ---------------------------------------------------------------------
\* The cursors the gateway holds in memory: the supervisor's, those of the
\* session closures and those the polls were called with.
MemoryCursors ==
    {supCursor} \cup {sessCursor[s] : s \in Sessions}
    \cup {PollAt(i).cur : i \in Slots}

\* The cursors of the listMessages responses that the polls in progress
\* have received or receive in this step.
ResponseCursors ==
    {CursorToSave(PollAt(i)) : i \in {j \in Slots : Running(PollAt(j))}}

C39_Start == MemoryCursors \cup {fileCursor} \subseteq Tokens \cup {NULL}

C39_Step ==
    /\ \A v \in MemoryCursors' \ MemoryCursors :
           v \in {NULL, SEED} \/ (v \in Tokens /\ v \in ResponseCursors)
    /\ fileCursor' # fileCursor =>
           fileCursor' \in Tokens /\ fileCursor' \in ResponseCursors

\* C39: the gateway starts with no cursor or the stored token, and a step
\* puts into the cursor file only the cursor of a listMessages response of
\* a poll in progress, and into memory only such a cursor, a copy of a
\* cursor already held, SEED or no cursor.
C39_CursorFromSource == C39_Start /\ [][C39_Step]_vars

\* Started without a cursor file, the fallback has seeded at event 1 and
\* delivered event 2: file and supervisor hold the token of event 2.
C39_Witness ==
    /\ Len(stream) = 2
    /\ delivered = {2}
    /\ supPc = "pollSleep"
    /\ fileCursor = 2
    /\ supCursor = 2

====
